---- MODULE Spec2Model ----
(***************************************************************************)
(* Model of pkg/login/social/okta_oauth.go: SocialOkta.UserInfo and its    *)
(* helpers GetGroups, extractAPI, extractEmail and extractRole.            *)
(*                                                                         *)
(* Several UserInfo calls run concurrently on one provider.  A call is     *)
(* split where it can block: the two HTTP GETs it issues (line 77 through  *)
(* extractAPI, line 79 through GetGroups -> extractAPI).  The user-info    *)
(* endpoint is the environment: every GET is answered by any response of   *)
(* Responses.                                                              *)
(***************************************************************************)
EXTENDS Integers, Sequences, FiniteSets, TLC

\* Number of concurrent UserInfo calls on the same provider.
NumCalls == 2

Procs == 1..NumCalls

----------------------------------------------------------------------------
(* JSON values and HTTP response bodies                                    *)

Absent == [t |-> "absent", s |-> "", l |-> <<>>]
Str(x) == [t |-> "string", s |-> x, l |-> <<>>]
Num(x) == [t |-> "number", s |-> x, l |-> <<>>]
List(x) == [t |-> "list", s |-> "", l |-> x]

\* A byte sequence, described by its text, whether it is well-formed JSON,
\* and the members of the top-level object that the program looks at.
EmptyBytes ==
    [text |-> "", valid |-> FALSE,
     name |-> Absent, groups |-> Absent, role |-> Absent]

BodyOk ==
    [text |-> "{\"groups\":[\"eng\"],\"role\":\"editor\"}", valid |-> TRUE,
     name |-> Absent, groups |-> List(<<"eng">>), role |-> Str("editor")]

\* Well-formed JSON whose "name" member is a number: json.Unmarshal reports
\* an UnmarshalTypeError for it.
BodyTypeErr ==
    [text |-> "{\"groups\":[\"eng\"],\"role\":\"editor\",\"name\":5}",
     valid |-> TRUE,
     name |-> Num("5"), groups |-> List(<<"eng">>), role |-> Str("editor")]

\* Truncated document: not well-formed JSON.
BodySyntaxErr ==
    [text |-> "{\"groups\":[\"eng\"],\"role\":\"editor\"", valid |-> FALSE,
     name |-> Absent, groups |-> List(<<"eng">>), role |-> Str("editor")]

Bodies == {BodyOk, BodyTypeErr, BodySyntaxErr}

JSONKeys == {"name", "groups", "role"}

\* What HttpGet(client, s.apiUrl) returns: an error, or a response body.
TransportError == [err |-> "transport error", Body |-> EmptyBytes]

Responses == {TransportError} \cup {[err |-> "", Body |-> b] : b \in Bodies}

----------------------------------------------------------------------------
(* Tokens                                                                  *)

Emails == {"", "a@b.com"}
Usernames == {"", "u@example.com"}

OktaClaims ==
    [ID : {"123"}, Email : Emails, PreferredUsername : Usernames,
     Name : {"A B"}]

ZeroClaims == [ID |-> "", Email |-> "", PreferredUsername |-> "", Name |-> ""]

SomeClaims ==
    [ID |-> "123", Email |-> "a@b.com", PreferredUsername |-> "",
     Name |-> "A B"]

\* An id-token string: "notjws" is not a compact JWS at all, "badpayload" is
\* a JWS whose payload does not decode into OktaClaims, "jws" is a JWS
\* carrying the claims of payload.
IdTokenStrings ==
    {[form |-> "notjws", payload |-> SomeClaims],
     [form |-> "badpayload", payload |-> SomeClaims]}
    \cup {[form |-> "jws", payload |-> c] : c \in OktaClaims}

\* token.Extra("id_token"): nil, a value that is not a string, or a string.
Tokens ==
    {[extra |-> "nil", str |-> [form |-> "notjws", payload |-> SomeClaims]],
     [extra |-> "number", str |-> [form |-> "notjws", payload |-> SomeClaims]]}
    \cup {[extra |-> "string", str |-> s] : s \in IdTokenStrings}

----------------------------------------------------------------------------
(* Provider configuration and records                                      *)

Configs ==
    [apiUrl : {"https://okta/userinfo"}, roleAttributePath : {"", "role"}]

ZeroData == [Name |-> "", Groups |-> <<>>, rawJSON |-> EmptyBytes]

ErrNoIdToken == "No id_token found"
ErrParse == "Error parsing id token"
ErrClaims == "Error getting claims from id token"
ErrNoEmail == "Error getting user info: No email found in access token"

NoResult == [info |-> <<>>, err |-> "", panic |-> FALSE]

----------------------------------------------------------------------------
(* Pure helpers                                                            *)

ParseSignedAcceptsAll(s) == [err |-> "", tok |-> s]

\* jwt.ParseSigned: fails on a string that is not a compact JWS.
ParseSigned(s) ==
    IF s.form = "notjws" THEN [err |-> "parse", tok |-> s]
    ELSE [err |-> "", tok |-> s]

\* JSONWebToken.UnsafeClaimsWithoutVerification(&claims).
UnsafeClaimsWithoutVerification(tok, claims) ==
    IF tok.form = "badpayload" THEN [err |-> "claims", claims |-> claims]
    ELSE [err |-> "", claims |-> tok.payload]

extractEmailIgnoresUsername(c) == c.Email

extractEmail(c) ==
    IF c.Email = ""
    THEN IF c.PreferredUsername # "" THEN c.PreferredUsername ELSE c.Email
    ELSE c.Email

\* json.Unmarshal(bytes, data): a syntax error leaves data untouched; a
\* member of the wrong type is skipped, the other members are still stored,
\* and the UnmarshalTypeError is returned at the end.
Unmarshal(bytes, d) ==
    IF ~bytes.valid THEN [data |-> d, err |-> "syntax"]
    ELSE LET d1 == IF bytes.name.t = "string"
                   THEN [d EXCEPT !.Name = bytes.name.s] ELSE d
             d2 == IF bytes.groups.t = "list"
                   THEN [d1 EXCEPT !.Groups = bytes.groups.l] ELSE d1
             typeErr == \/ bytes.name.t \notin {"absent", "string"}
                        \/ bytes.groups.t \notin {"absent", "list"}
         IN  [data |-> d2, err |-> IF typeErr THEN "type" ELSE ""]

\* SocialBase.searchJSONForAttr: the string found at path in the document,
\* "" for an empty path, a malformed document or a miss.
searchJSONForAttr(path, bytes) ==
    IF path = "" THEN ""
    ELSE IF ~bytes.valid THEN ""
    ELSE IF path \notin JSONKeys THEN ""
    ELSE IF bytes[path].t = "string" THEN bytes[path].s
    ELSE ""

extractAPIKeepsRaw(d, resp) ==
    IF resp.err # "" THEN [data |-> d, ok |-> FALSE]
    ELSE LET d1 == [d EXCEPT !.rawJSON = resp.Body]
             u == Unmarshal(d1.rawJSON, d1)
         IN  IF u.err # ""
             THEN [data |-> u.data, ok |-> FALSE]
             ELSE [data |-> u.data, ok |-> TRUE]

\* extractAPI(data, client), given the answer resp of HttpGet.
extractAPI(d, resp) ==
    IF resp.err # "" THEN [data |-> d, ok |-> FALSE]
    ELSE LET d1 == [d EXCEPT !.rawJSON = resp.Body]
             u == Unmarshal(d1.rawJSON, d1)
         IN  IF u.err # ""
             THEN [data |-> [u.data EXCEPT !.rawJSON = EmptyBytes],
                   ok |-> FALSE]
             ELSE [data |-> u.data, ok |-> TRUE]

extractRole(c, d) ==
    IF c.roleAttributePath # ""
    THEN LET r == searchJSONForAttr(c.roleAttributePath, d.rawJSON)
         IN  IF r # "" THEN r ELSE ""
    ELSE ""

\* GetGroups(client), given the answer resp of its own HttpGet.
GetGroups(resp) ==
    LET d == extractAPI(ZeroData, resp).data
    IN  IF Len(d.Groups) > 0 THEN d.Groups ELSE <<>>

IdTokenStageNoEmailCheck(t) ==
    IF t.extra = "nil"
    THEN [done |-> TRUE, claims |-> ZeroClaims, email |-> "",
          result |-> [NoResult EXCEPT !.err = ErrNoIdToken]]
    ELSE IF t.extra # "string"
    THEN [done |-> TRUE, claims |-> ZeroClaims, email |-> "",
          result |-> [NoResult EXCEPT !.panic = TRUE]]
    ELSE LET p == ParseSigned(t.str) IN
         IF p.err # ""
         THEN [done |-> TRUE, claims |-> ZeroClaims, email |-> "",
               result |-> [NoResult EXCEPT !.err = ErrParse]]
         ELSE LET c == UnsafeClaimsWithoutVerification(p.tok, ZeroClaims) IN
              IF c.err # ""
              THEN [done |-> TRUE, claims |-> c.claims, email |-> "",
                    result |-> [NoResult EXCEPT !.err = ErrClaims]]
              ELSE [done |-> FALSE, claims |-> c.claims,
                    email |-> extractEmail(c.claims), result |-> NoResult]

\* UserInfo up to the email check (lines 55-74).  idToken.(string) is an
\* unchecked type assertion: it panics when the value is not a string.
IdTokenStage(t) ==
    IF t.extra = "nil"
    THEN [done |-> TRUE, claims |-> ZeroClaims, email |-> "",
          result |-> [NoResult EXCEPT !.err = ErrNoIdToken]]
    ELSE IF t.extra # "string"
    THEN [done |-> TRUE, claims |-> ZeroClaims, email |-> "",
          result |-> [NoResult EXCEPT !.panic = TRUE]]
    ELSE LET p == ParseSigned(t.str) IN
         IF p.err # ""
         THEN [done |-> TRUE, claims |-> ZeroClaims, email |-> "",
               result |-> [NoResult EXCEPT !.err = ErrParse]]
         ELSE LET c == UnsafeClaimsWithoutVerification(p.tok, ZeroClaims) IN
              IF c.err # ""
              THEN [done |-> TRUE, claims |-> c.claims, email |-> "",
                    result |-> [NoResult EXCEPT !.err = ErrClaims]]
              ELSE LET e == extractEmail(c.claims) IN
                   IF e = ""
                   THEN [done |-> TRUE, claims |-> c.claims, email |-> e,
                         result |-> [NoResult EXCEPT !.err = ErrNoEmail]]
                   ELSE [done |-> FALSE, claims |-> c.claims, email |-> e,
                         result |-> NoResult]

\* The BasicUserInfo assembled at lines 81-88.
BasicUserInfo(c, e, r, g) ==
    [Id |-> c.ID, Name |-> c.Name, Email |-> e, Login |-> e,
     Role |-> r, Groups |-> g]

----------------------------------------------------------------------------
(* State                                                                   *)

VARIABLES
    cfg,     \* the provider s: apiUrl, roleAttributePath
    pc,      \* per call: "idle", "fetch", "groups", "done"
    token,   \* per call: the token argument
    claims,  \* per call: local claims
    email,   \* per call: local email
    data,    \* per call: local data of UserInfo
    role,    \* per call: local role
    gets,    \* per call: the answers of the HTTP GETs it issued, in order
    result   \* per call: what UserInfo returned

vars == <<cfg, pc, token, claims, email, data, role, gets, result>>

Init ==
    /\ cfg \in Configs
    /\ pc = [p \in Procs |-> "idle"]
    /\ token = [p \in Procs |-> CHOOSE t \in Tokens : t.extra = "nil"]
    /\ claims = [p \in Procs |-> ZeroClaims]
    /\ email = [p \in Procs |-> ""]
    /\ data = [p \in Procs |-> ZeroData]
    /\ role = [p \in Procs |-> ""]
    /\ gets = [p \in Procs |-> <<>>]
    /\ result = [p \in Procs |-> NoResult]

\* Lines 55-74: the id_token is read, parsed and the email derived.
UserInfoStart(p) ==
    /\ pc[p] = "idle"
    /\ \E t \in Tokens :
         LET s == IdTokenStage(t) IN
         /\ token' = [token EXCEPT ![p] = t]
         /\ claims' = [claims EXCEPT ![p] = s.claims]
         /\ email' = [email EXCEPT ![p] = s.email]
         /\ result' = [result EXCEPT ![p] = s.result]
         /\ pc' = [pc EXCEPT ![p] = IF s.done THEN "done" ELSE "fetch"]
    /\ UNCHANGED <<cfg, data, role, gets>>

UserInfoFetchClearsPath(p) ==
    /\ pc[p] = "fetch"
    /\ \E resp \in Responses :
         LET r == extractAPI(ZeroData, resp) IN
         /\ gets' = [gets EXCEPT ![p] = Append(@, resp)]
         /\ data' = [data EXCEPT ![p] = r.data]
         /\ role' = [role EXCEPT ![p] = extractRole(cfg, r.data)]
         /\ cfg' = IF r.ok THEN cfg ELSE [cfg EXCEPT !.roleAttributePath = ""]
    /\ pc' = [pc EXCEPT ![p] = "groups"]
    /\ UNCHANGED <<token, claims, email, result>>

\* Lines 76-78: extractAPI(&data, client), then extractRole(&data).
UserInfoFetch(p) ==
    /\ pc[p] = "fetch"
    /\ \E resp \in Responses :
         LET r == extractAPI(ZeroData, resp) IN
         /\ gets' = [gets EXCEPT ![p] = Append(@, resp)]
         /\ data' = [data EXCEPT ![p] = r.data]
         /\ role' = [role EXCEPT ![p] = extractRole(cfg, r.data)]
    /\ pc' = [pc EXCEPT ![p] = "groups"]
    /\ UNCHANGED <<cfg, token, claims, email, result>>

\* Lines 79-88: GetGroups(client) issues its own GET, then UserInfo returns.
UserInfoReturn(p) ==
    /\ pc[p] = "groups"
    /\ \E resp \in Responses :
         /\ gets' = [gets EXCEPT ![p] = Append(@, resp)]
         /\ result' = [result EXCEPT ![p] =
                [NoResult EXCEPT !.info =
                    <<BasicUserInfo(claims[p], email[p], role[p],
                                    GetGroups(resp))>>]]
    /\ pc' = [pc EXCEPT ![p] = "done"]
    /\ UNCHANGED <<cfg, token, claims, email, data, role>>

Next ==
    \E p \in Procs :
        \/ UserInfoStart(p)
        \/ UserInfoFetch(p)
        \/ UserInfoReturn(p)

Spec == Init /\ [][Next]_vars

----------------------------------------------------------------------------
(* Properties                                                              *)

Succeeded(p) == pc[p] = "done" /\ result[p].info # <<>>

DecodeFails(resp) == resp.err = "" /\ Unmarshal(resp.Body, ZeroData).err # ""

FatalErrors == {ErrNoIdToken, ErrParse, ErrClaims, ErrNoEmail}

TokenParseErrors == {ErrParse, ErrClaims}

\* C1: every UserInfo call performs at most one HTTP GET to apiUrl.
C1_AtMostOneGet ==
    \A p \in Procs : Len(gets[p]) <= 1

\* C2: for a malformed id-token string (not a JWS, or a payload that does
\* not decode), UserInfo fails with a token parse error and has issued no
\* HTTP GET.
C2_MalformedFailsBeforeFetch ==
    \A p \in Procs :
        (/\ pc[p] # "idle"
         /\ token[p].extra = "string"
         /\ token[p].str.form \in {"notjws", "badpayload"})
        => /\ pc[p] = "done"
           /\ result[p].info = <<>>
           /\ result[p].err \in TokenParseErrors
           /\ ~result[p].panic
           /\ gets[p] = <<>>

C2_Witness ==
    \E p \in Procs :
        /\ pc[p] = "done"
        /\ token[p].extra = "string"
        /\ token[p].str.form = "badpayload"
        /\ result[p].err = ErrClaims

\* C3: UserInfo never returns an identity with an empty email: with the
\* email and preferred_username claims both empty it fails with the
\* no-email error and builds no identity; on success the email is non-empty
\* and the login equals the email.
C3_NoEmptyEmail ==
    \A p \in Procs :
        /\ (/\ pc[p] # "idle"
            /\ token[p].extra = "string"
            /\ token[p].str.form = "jws"
            /\ token[p].str.payload.Email = ""
            /\ token[p].str.payload.PreferredUsername = "")
           => /\ pc[p] = "done"
              /\ result[p].info = <<>>
              /\ result[p].err = ErrNoEmail
        /\ Succeeded(p)
           => /\ result[p].info[1].Email # ""
              /\ result[p].info[1].Login = result[p].info[1].Email

C3_Witness ==
    /\ \E p \in Procs : pc[p] = "done" /\ result[p].err = ErrNoEmail
    /\ \E p \in Procs : Succeeded(p) /\ result[p].info[1].Email = "u@example.com"

\* C4: if the user-info fetch fails with a transport error and the claims
\* give an email, UserInfo succeeds with an empty role and empty groups.
C4_TransportErrorDegrades ==
    \A p \in Procs :
        (pc[p] = "done" /\ gets[p] # <<>> /\ gets[p][1] = TransportError)
        => /\ Succeeded(p)
           /\ result[p].info[1].Role = ""
           /\ result[p].info[1].Groups = <<>>

\* C5 (as stated): after a fetch whose GET succeeded, rawJSON equals the
\* response body whether or not JSON decoding succeeded.
C5_RawAlwaysKept ==
    \A p \in Procs :
        (pc[p] = "groups" /\ gets[p][1].err = "")
        => data[p].rawJSON = gets[p][1].Body

\* C5 (amended): after a fetch whose GET succeeded, rawJSON equals the
\* response body when JSON decoding succeeded and is empty when decoding
\* failed, in which case the role is extracted from the empty bytes and is
\* empty.
C5_RawKeptIffDecoded ==
    \A p \in Procs :
        (pc[p] = "groups" /\ gets[p][1].err = "")
        => IF DecodeFails(gets[p][1])
           THEN data[p].rawJSON = EmptyBytes /\ role[p] = ""
           ELSE data[p].rawJSON = gets[p][1].Body

C5_Witness ==
    \E p \in Procs :
        /\ pc[p] = "groups"
        /\ DecodeFails(gets[p][1])
        /\ gets[p][1].Body.valid
        /\ cfg.roleAttributePath = "role"
        /\ data[p].rawJSON = EmptyBytes

\* C6: on a decode error the fetch yields a zero-value document (all typed
\* fields empty), so UserInfo returns empty groups and an empty role, never
\* groups decoded before the error.
C6_DecodeErrorZeroDocument ==
    \A p \in Procs :
        /\ (pc[p] = "groups" /\ DecodeFails(gets[p][1]))
           => data[p] = ZeroData
        /\ (pc[p] = "done" /\ Len(gets[p]) = 2
            /\ \A i \in 1..2 : DecodeFails(gets[p][i]))
           => /\ Succeeded(p)
              /\ result[p].info[1].Groups = <<>>
              /\ result[p].info[1].Role = ""

\* C7: the derived email is the email claim when that is non-empty, the
\* preferred_username claim when the email claim is empty and
\* preferred_username is not, and empty only when both are empty; deriving
\* it never fails.
C7_EmailFallback ==
    \A p \in Procs :
        (/\ pc[p] # "idle"
         /\ token[p].extra = "string"
         /\ token[p].str.form = "jws")
        => LET c == token[p].str.payload IN
           /\ claims[p] = c
           /\ email[p] \in Emails \cup Usernames
           /\ c.Email # "" => email[p] = c.Email
           /\ (c.Email = "" /\ c.PreferredUsername # "")
              => email[p] = c.PreferredUsername
           /\ email[p] = "" <=> (c.Email = "" /\ c.PreferredUsername = "")

C7_Witness ==
    \E p \in Procs :
        /\ pc[p] # "idle"
        /\ claims[p].Email = ""
        /\ claims[p].PreferredUsername = "u@example.com"
        /\ email[p] = "u@example.com"

\* What one UserInfo call returns when it runs alone with token t and the
\* GET answers rs.
UserInfoAlone(c, t, rs) ==
    LET s == IdTokenStage(t) IN
    IF s.done THEN s.result
    ELSE LET d == extractAPI(ZeroData, rs[1]).data IN
         [NoResult EXCEPT !.info =
             <<BasicUserInfo(s.claims, s.email, extractRole(c, d),
                             GetGroups(rs[2]))>>]

\* C8: concurrent UserInfo calls do not interfere: no step changes the
\* provider configuration, and every call returns what it returns when run
\* alone with the same token and the same user-info responses.
C8_NoInterference ==
    [][/\ cfg' = cfg
       /\ \A p \in Procs :
            pc'[p] = "done"
            => result'[p] = UserInfoAlone(cfg, token'[p], gets'[p])]_vars

C8_Witness ==
    /\ Succeeded(1) /\ Succeeded(2)
    /\ token[1] # token[2]
    /\ gets[1] # gets[2]
    /\ result[1] # result[2]

\* C9: on success the role and the groups come from one and the same
\* fetched user-info document, and both are empty if that fetch failed.
C9_RoleAndGroupsFromOneDocument ==
    \A p \in Procs :
        Succeeded(p)
        => \E i \in 1..Len(gets[p]) :
             LET f == extractAPI(ZeroData, gets[p][i]) IN
             /\ result[p].info[1].Role = extractRole(cfg, f.data)
             /\ result[p].info[1].Groups = f.data.Groups
             /\ ~f.ok => /\ result[p].info[1].Role = ""
                         /\ result[p].info[1].Groups = <<>>

\* C10: UserInfo ends by returning either an identity and no error, or no
\* identity and one of the fatal errors; it never panics.
C10_ReturnsIdentityOrFatalError ==
    \A p \in Procs :
        pc[p] = "done"
        => /\ ~result[p].panic
           /\ \/ result[p].info # <<>> /\ result[p].err = ""
              \/ result[p].info = <<>> /\ result[p].err \in FatalErrors

====
